---- MODULE Spec2Model ----
(***************************************************************************)
(* Model of azure-event-hubs-python:                                       *)
(*   - PartitionPump (azure/eventprocessorhost/partition_pump.py): the     *)
(*     open / process / close lifecycle of one pump, stepped at every      *)
(*     await of an external hook;                                          *)
(*   - Sender (azure/eventhub/__init__.py): the blocking send path and its *)
(*     single pending-outcome slot.                                        *)
(*   - EventHubClient: the shared connection and the registered handlers;  *)
(*   - Receiver: the receive() generator, on_message and selector;         *)
(*   - Offset: the filter expression of selector().                        *)
(* External hooks (the event processor, the subclass hooks, the storage    *)
(* manager, the uamqp transport) are inputs: each may return or raise.     *)
(***************************************************************************)
EXTENDS Integers, Sequences, FiniteSets, TLC

\* ------------------------------------------------------------------ bounds
MaxEvent == 2
MaxBatch == 2
MaxCondition == 2
MaxTransfer == 2
MaxConnections == 2
MaxClients == 2
MaxTime == 3
MaxTimeout == 2
MaxOffsetValue == 12

\* ------------------------------------------------------- values and inputs
\* Python's None for optional records and numbers: the empty tuple; a present
\* value v is the one-element tuple <<v>>.
None == << >>
Some(v) == << v >>

\* A transport message wrapped as EventData: the k-th event of the partition
\* carries sequence number k (an integer) and its offset annotation (a string).
EventData == {[offset |-> ToString(k), sequence_number |-> k] : k \in 1..MaxEvent}

\* An element of a batch: an event, or None.
Elements == {None} \cup {Some(e) : e \in EventData}

\* The batches handed to process_events_async (the empty batch included).
Batches == UNION {[1..n -> Elements] : n \in 0..MaxBatch}

\* The batches the two-task specification draws from.
ConcBatches == {<< Some([offset |-> ToString(1), sequence_number |-> 1]) >>}

Reasons == {"Shutdown", "LeaseLost"}

\* uamqp.constants.MessageSendResult, and the error condition that comes with it
MessageSendResult == {"Ok", "Error", "Timeout"}
Conditions == {None} \cup {Some(c) : c \in 1..MaxCondition}
NoOutcome == "None"

Tasks == {"A", "B"}
MainTask == "A"

NoProcessor == "None"
Processor == "processor"

NoError == "None"
InitialLease == "lease0"

VARIABLES
    \* PartitionPump fields
    pump_status, processor, partition_context, lease,
    \* one record of locals per calling task
    pc, op, reason, events, result,
    \* history of the current (or last finished) call of each task
    startStatus, hookRaised, forwarded, releases,
    \* history of the pump: the processor's open hook raised in the last open_async
    openFailed,
    \* the lease most recently given to the pump, and per task the lease its
    \* call of release_lease_async is running with
    lastLease, releasedLease,
    \* per task: the batch its current call passed to the processor's
    \* process_events hook, and whether the call changed the context's offset
    hookBatch, offsetChanged,
    \* Sender fields and the locals of its calling tasks
    _outcome, _condition, spc, reported, sresult,
    \* history of a send call: another send was in its submit at the same time
    overlapped,
    \* the messages enqueued with transfer, and the calls their callbacks received
    transfers,
    \* EventHubClient fields: the shared connection, the registered handlers
    connection, clients, stopped,
    \* the number of Connection objects constructed and destroyed so far
    constructed, destroyed,
    \* the position of the client's caller inside run or stop, the last call
    \* made, and the connection held when it was made
    cpc, cop, heldAtCall,
    \* Receiver fields
    offset, delivered, _callback,
    \* the receive() generator: its position, its arguments and its locals
    rpc, max_batch_size, timeout, user_callback, timeout_ms, receive_timeout, message_iter, idx,
    \* the clock (seconds) and the number of events the transport has handed over
    now, streamPos,
    \* history of the current receive() call: the events yielded, the on_message
    \* calls, the batch fetches issued; and the last result of selector()
    yielded, log, fetches, selected,
    \* an Offset object and the last result of its selector()
    off_value, off_inclusive, off_result

pumpVars == <<pump_status, processor, partition_context, lease, openFailed, lastLease,
              releasedLease>>
taskVars == <<pc, op, reason, events, result, startStatus, hookRaised, forwarded, releases,
              hookBatch, offsetChanged>>
senderVars == <<_outcome, _condition, spc, reported, sresult, overlapped, transfers>>
clientVars == <<connection, constructed, destroyed, clients, stopped, cpc, cop, heldAtCall>>
receiverVars == <<offset, delivered, _callback, rpc, max_batch_size, timeout, user_callback,
                  timeout_ms, receive_timeout, message_iter, idx, now, streamPos,
                  yielded, log, fetches, selected>>
offsetVars == <<off_value, off_inclusive, off_result>>
vars == <<pumpVars, taskVars, senderVars, clientVars, receiverVars, offsetVars>>

\* ------------------------------------------------------------ PartitionPump
PumpInit ==
    /\ pump_status = "Uninitialized"
    /\ processor = NoProcessor
    /\ partition_context = None
    /\ lease = InitialLease
    /\ openFailed = FALSE
    /\ pc = [t \in Tasks |-> "idle"]
    /\ op = [t \in Tasks |-> "none"]
    /\ reason = [t \in Tasks |-> "none"]
    /\ events = [t \in Tasks |-> << >>]
    /\ result = [t \in Tasks |-> "none"]
    /\ startStatus = [t \in Tasks |-> "none"]
    /\ hookRaised = [t \in Tasks |-> NoError]
    /\ forwarded = [t \in Tasks |-> NoError]
    /\ releases = [t \in Tasks |-> 0]
    /\ lastLease = InitialLease
    /\ releasedLease = [t \in Tasks |-> None]
    /\ hookBatch = [t \in Tasks |-> None]
    /\ offsetChanged = [t \in Tasks |-> FALSE]

\* A call begins: the locals and the history of the task are reset.
Begin(t, o, r, b) ==
    /\ pc[t] = "idle"
    /\ op' = [op EXCEPT ![t] = o]
    /\ reason' = [reason EXCEPT ![t] = r]
    /\ events' = [events EXCEPT ![t] = b]
    /\ startStatus' = [startStatus EXCEPT ![t] = pump_status]
    /\ hookRaised' = [hookRaised EXCEPT ![t] = NoError]
    /\ releases' = [releases EXCEPT ![t] = 0]

\* The call is suspended inside an external hook.
Goto(t, p) ==
    /\ pc' = [pc EXCEPT ![t] = p]
    /\ UNCHANGED result

\* The call returns normally.
Return(t) ==
    /\ pc' = [pc EXCEPT ![t] = "idle"]
    /\ result' = [result EXCEPT ![t] = "ok"]

\* The call ends by raising e to its caller.
Raise(t, e) ==
    /\ pc' = [pc EXCEPT ![t] = "idle"]
    /\ result' = [result EXCEPT ![t] = e]

\* PartitionContext.set_offset_and_sequence_number(event)
set_offset_and_sequence_number(ctx, event) ==
    [ctx EXCEPT !.offset = Some(event.offset),
                !.sequence_number = Some(event.sequence_number)]

\* The context is set from the first element of the batch.
LastOf_first(b) == b[1]

\* events[-1]
LastOf(b) == b[Len(b)]

\* process_error_async(error): the error is handed to the processor's error
\* hook; with no processor installed the attribute access on None raises.
process_error_async(t, e, next) ==
    IF processor = NoProcessor
    THEN Raise(t, "AttributeError") /\ forwarded' = [forwarded EXCEPT ![t] = NoError]
    ELSE Goto(t, next) /\ forwarded' = [forwarded EXCEPT ![t] = e]

\* is_closing()
is_closing == pump_status = "Closing" \/ pump_status = "Closed"

\* The status the subclass's open-event hook leaves behind when it succeeds.
on_open_status == "Opened"

\* The leases the host may give to the pump after its construction.
NewLeases == {"lease1", "lease2"}

\* set_lease(new_lease): the lease is stored in the partition context, if
\* there is one.
set_lease(new_lease) ==
    /\ pc[MainTask] = "idle"
    /\ lastLease' = new_lease
    /\ partition_context' = IF partition_context # None
                            THEN Some([partition_context[1] EXCEPT !.lease = new_lease])
                            ELSE partition_context
    /\ UNCHANGED <<pump_status, processor, lease, openFailed, releasedLease, taskVars,
                   senderVars, clientVars, receiverVars, offsetVars>>

\* open_async, up to the await of the processor's open hook.
open_async(t) ==
    /\ Begin(t, "open", "none", << >>)
    /\ pump_status' = "Opening"
    /\ partition_context' = Some([lease |-> lease, offset |-> None, sequence_number |-> None])
    /\ processor' = Processor
    /\ openFailed' = FALSE
    /\ forwarded' = [forwarded EXCEPT ![t] = NoError]
    /\ hookBatch' = [hookBatch EXCEPT ![t] = None]
    /\ offsetChanged' = [offsetChanged EXCEPT ![t] = FALSE]
    /\ Goto(t, "in_open")
    /\ UNCHANGED <<lease, lastLease, releasedLease, senderVars,
                   clientVars, receiverVars, offsetVars>>

\* The processor's open hook returned: the open-event hook runs only while the
\* status is still Opening.
open_async_opened(t) ==
    /\ pc[t] = "in_open"
    /\ IF pump_status = "Opening" THEN Goto(t, "in_on_open") ELSE Return(t)
    /\ UNCHANGED <<pumpVars, op, reason, events, startStatus, hookRaised, forwarded, releases, hookBatch, offsetChanged, senderVars,
                   clientVars, receiverVars, offsetVars>>

\* The processor's open hook raised: the error goes to the error hook.
open_async_failed(t) ==
    /\ pc[t] = "in_open"
    /\ hookRaised' = [hookRaised EXCEPT ![t] = "OpenError"]
    /\ openFailed' = TRUE
    /\ process_error_async(t, "OpenError", "in_open_error")
    /\ UNCHANGED <<pump_status, processor, partition_context, lease, op, reason, events,
                   startStatus, releases, lastLease, releasedLease, hookBatch, offsetChanged, senderVars,
                   clientVars, receiverVars, offsetVars>>

\* The error hook returned: the processor is discarded, the status is OpenFailed.
open_async_error_reported(t) ==
    /\ pc[t] = "in_open_error"
    /\ processor' = NoProcessor
    /\ pump_status' = "OpenFailed"
    /\ Return(t)
    /\ UNCHANGED <<partition_context, lease, openFailed, op, reason, events, startStatus,
                   hookRaised, forwarded, releases, lastLease, releasedLease, hookBatch, offsetChanged, senderVars,
                   clientVars, receiverVars, offsetVars>>

\* The error hook raised inside the except block: the error leaves open_async.
open_async_error_hook_raised(t) ==
    /\ pc[t] = "in_open_error"
    /\ Raise(t, "ErrorHookError")
    /\ UNCHANGED <<pumpVars, op, reason, events, startStatus, hookRaised, forwarded,
                   releases, hookBatch, offsetChanged, senderVars,
                   clientVars, receiverVars, offsetVars>>

\* The subclass's open-event hook ran to its end.
on_open_async(t) ==
    /\ pc[t] = "in_on_open"
    /\ pump_status' = on_open_status
    /\ Return(t)
    /\ UNCHANGED <<processor, partition_context, lease, openFailed, op, reason, events,
                   startStatus, hookRaised, forwarded, releases, lastLease, releasedLease, hookBatch, offsetChanged, senderVars,
                   clientVars, receiverVars, offsetVars>>

\* close_async that does not announce Closing before it calls the hooks.
close_async_skips_closing(t, r) ==
    /\ Begin(t, "close", r, << >>)
    /\ forwarded' = [forwarded EXCEPT ![t] = NoError]
    /\ hookBatch' = [hookBatch EXCEPT ![t] = None]
    /\ offsetChanged' = [offsetChanged EXCEPT ![t] = FALSE]
    /\ Goto(t, "in_on_closing")
    /\ UNCHANGED <<pumpVars, lastLease, releasedLease, senderVars,
                   clientVars, receiverVars, offsetVars>>

\* close_async(reason), up to the await of the subclass's closing hook.
close_async(t, r) ==
    /\ Begin(t, "close", r, << >>)
    /\ pump_status' = "Closing"
    /\ forwarded' = [forwarded EXCEPT ![t] = NoError]
    /\ hookBatch' = [hookBatch EXCEPT ![t] = None]
    /\ offsetChanged' = [offsetChanged EXCEPT ![t] = FALSE]
    /\ Goto(t, "in_on_closing")
    /\ UNCHANGED <<processor, partition_context, lease, openFailed, lastLease, releasedLease, senderVars,
                   clientVars, receiverVars, offsetVars>>

\* close_async after its try block: the lease release on LeaseLost, then Closed.
AfterCloseTry(t) ==
    IF reason[t] = "LeaseLost"
    THEN IF partition_context = None
         THEN /\ Raise(t, "AttributeError")
              /\ UNCHANGED <<pump_status, releases, releasedLease>>
         ELSE /\ Goto(t, "in_release")
              /\ releases' = [releases EXCEPT ![t] = @ + 1]
              /\ releasedLease' = [releasedLease EXCEPT ![t] = Some(partition_context[1].lease)]
              /\ UNCHANGED pump_status
    ELSE /\ pump_status' = "Closed"
         /\ Return(t)
         /\ UNCHANGED <<releases, releasedLease>>

\* The closing hook returned: the processor's close hook is called if a
\* processor is installed.
close_async_closing_done(t) ==
    /\ pc[t] = "in_on_closing"
    /\ IF processor # NoProcessor
       THEN Goto(t, "in_processor_close") /\ UNCHANGED <<pump_status, releases, releasedLease>>
       ELSE AfterCloseTry(t)
    /\ UNCHANGED <<processor, partition_context, lease, openFailed, op, reason, events,
                   startStatus, hookRaised, forwarded, lastLease, hookBatch, offsetChanged, senderVars,
                   clientVars, receiverVars, offsetVars>>

\* The closing hook raised.
close_async_closing_raised(t) ==
    /\ pc[t] = "in_on_closing"
    /\ hookRaised' = [hookRaised EXCEPT ![t] = "ClosingError"]
    /\ process_error_async(t, "ClosingError", "in_close_error")
    /\ UNCHANGED <<pumpVars, op, reason, events, startStatus, releases, hookBatch, offsetChanged, senderVars,
                   clientVars, receiverVars, offsetVars>>

\* The processor's close hook returned.
close_async_processor_closed(t) ==
    /\ pc[t] = "in_processor_close"
    /\ AfterCloseTry(t)
    /\ UNCHANGED <<processor, partition_context, lease, openFailed, op, reason, events,
                   startStatus, hookRaised, forwarded, lastLease, hookBatch, offsetChanged, senderVars,
                   clientVars, receiverVars, offsetVars>>

\* The processor's close hook raised.
close_async_processor_raised(t) ==
    /\ pc[t] = "in_processor_close"
    /\ hookRaised' = [hookRaised EXCEPT ![t] = "CloseError"]
    /\ process_error_async(t, "CloseError", "in_close_error")
    /\ UNCHANGED <<pumpVars, op, reason, events, startStatus, releases, hookBatch, offsetChanged, senderVars,
                   clientVars, receiverVars, offsetVars>>

\* The error hook returned: the caught error is logged and raised again.
close_async_error_reported(t) ==
    /\ pc[t] = "in_close_error"
    /\ Raise(t, forwarded[t])
    /\ UNCHANGED <<pumpVars, op, reason, events, startStatus, hookRaised, forwarded,
                   releases, hookBatch, offsetChanged, senderVars,
                   clientVars, receiverVars, offsetVars>>

\* The error hook raised inside the except block.
close_async_error_hook_raised(t) ==
    /\ pc[t] = "in_close_error"
    /\ Raise(t, "ErrorHookError")
    /\ UNCHANGED <<pumpVars, op, reason, events, startStatus, hookRaised, forwarded,
                   releases, hookBatch, offsetChanged, senderVars,
                   clientVars, receiverVars, offsetVars>>

\* release_lease_async returned.
close_async_released(t) ==
    /\ pc[t] = "in_release"
    /\ releasedLease' = [releasedLease EXCEPT ![t] = None]
    /\ pump_status' = "Closed"
    /\ Return(t)
    /\ UNCHANGED <<processor, partition_context, lease, openFailed, op, reason, events,
                   startStatus, hookRaised, forwarded, releases, lastLease, hookBatch, offsetChanged, senderVars,
                   clientVars, receiverVars, offsetVars>>

\* release_lease_async raised: logged and raised again.
close_async_release_raised(t) ==
    /\ pc[t] = "in_release"
    /\ releasedLease' = [releasedLease EXCEPT ![t] = None]
    /\ Raise(t, "ReleaseError")
    /\ UNCHANGED <<pump_status, processor, partition_context, lease, openFailed, lastLease,
                   op, reason, events, startStatus, hookRaised, forwarded, releases,
                   hookBatch, offsetChanged, senderVars, clientVars, receiverVars, offsetVars>>

\* process_events_async(events), up to the await of the processor's
\* process_events hook.
process_events_async(t, b) ==
    /\ Begin(t, "process", "none", b)
    /\ IF b = << >> \/ LastOf(b) = None
       THEN /\ Return(t)
            /\ forwarded' = [forwarded EXCEPT ![t] = NoError]
            /\ hookBatch' = [hookBatch EXCEPT ![t] = None]
            /\ UNCHANGED partition_context
       ELSE IF partition_context = None
            THEN \* set_offset_and_sequence_number on None raises; so does the
                 \* error hook of the missing processor.
                 /\ process_error_async(t, "AttributeError", "in_process_error")
                 /\ hookBatch' = [hookBatch EXCEPT ![t] = None]
                 /\ UNCHANGED partition_context
            ELSE /\ partition_context' =
                        Some(set_offset_and_sequence_number(partition_context[1], LastOf(b)[1]))
                 /\ IF processor = NoProcessor
                    THEN /\ process_error_async(t, "AttributeError", "in_process_error")
                         /\ hookBatch' = [hookBatch EXCEPT ![t] = None]
                    ELSE /\ Goto(t, "in_process")
                         /\ forwarded' = [forwarded EXCEPT ![t] = NoError]
                         /\ hookBatch' = [hookBatch EXCEPT ![t] = Some(b)]
    /\ offsetChanged' = [offsetChanged EXCEPT ![t] =
            partition_context # None /\ partition_context'[1].offset # partition_context[1].offset]
    /\ UNCHANGED <<pump_status, processor, lease, openFailed, lastLease, releasedLease, senderVars,
                   clientVars, receiverVars, offsetVars>>

\* The processor's process_events hook returned.
process_events_async_done(t) ==
    /\ pc[t] = "in_process"
    /\ Return(t)
    /\ UNCHANGED <<pumpVars, op, reason, events, startStatus, hookRaised, forwarded,
                   releases, hookBatch, offsetChanged, senderVars,
                   clientVars, receiverVars, offsetVars>>

\* The processor's process_events hook raised.
process_events_async_raised(t) ==
    /\ pc[t] = "in_process"
    /\ hookRaised' = [hookRaised EXCEPT ![t] = "ProcessError"]
    /\ process_error_async(t, "ProcessError", "in_process_error")
    /\ UNCHANGED <<pumpVars, op, reason, events, startStatus, releases, hookBatch, offsetChanged, senderVars,
                   clientVars, receiverVars, offsetVars>>

\* The error hook returned: the error is swallowed.
process_events_async_error_reported(t) ==
    /\ pc[t] = "in_process_error"
    /\ Return(t)
    /\ UNCHANGED <<pumpVars, op, reason, events, startStatus, hookRaised, forwarded,
                   releases, hookBatch, offsetChanged, senderVars,
                   clientVars, receiverVars, offsetVars>>

\* The error hook raised inside the except block.
process_events_async_error_hook_raised(t) ==
    /\ pc[t] = "in_process_error"
    /\ Raise(t, "ErrorHookError")
    /\ UNCHANGED <<pumpVars, op, reason, events, startStatus, hookRaised, forwarded,
                   releases, hookBatch, offsetChanged, senderVars,
                   clientVars, receiverVars, offsetVars>>

\* The steps of a call that is suspended in a hook.
PumpResume(t) ==
    \/ open_async_opened(t)
    \/ open_async_failed(t)
    \/ open_async_error_reported(t)
    \/ open_async_error_hook_raised(t)
    \/ on_open_async(t)
    \/ close_async_closing_done(t)
    \/ close_async_closing_raised(t)
    \/ close_async_processor_closed(t)
    \/ close_async_processor_raised(t)
    \/ close_async_error_reported(t)
    \/ close_async_error_hook_raised(t)
    \/ close_async_released(t)
    \/ close_async_release_raised(t)
    \/ process_events_async_done(t)
    \/ process_events_async_raised(t)
    \/ process_events_async_error_reported(t)
    \/ process_events_async_error_hook_raised(t)

\* ------------------------------------------------------------------- Sender
SenderInit ==
    /\ _outcome = NoOutcome
    /\ _condition = None
    /\ spc = [t \in Tasks |-> "idle"]
    /\ reported = [t \in Tasks |-> None]
    /\ sresult = [t \in Tasks |-> [status |-> "none", error |-> None]]
    /\ overlapped = [t \in Tasks |-> FALSE]
    /\ transfers = << >>

\* EventHubError(outcome, condition)
EventHubError(outcome, condition) == <<"EventHubError", outcome, condition>>

\* _error that builds an error for every outcome, Ok included.
_error_for_every_outcome(outcome, condition) == EventHubError(outcome, condition)

\* Sender._error(outcome, condition)
_error(outcome, condition) ==
    IF outcome = "Ok" THEN None ELSE EventHubError(outcome, condition)

\* _on_outcome that keeps the outcome and forgets the condition.
_on_outcome_drops_condition(outcome, condition) == [outcome |-> outcome, condition |-> None]

\* Sender._on_outcome(outcome, condition): the values the slot holds afterwards.
_on_outcome(outcome, condition) == [outcome |-> outcome, condition |-> condition]

\* send(event_data), up to the blocking submit: the message's completion hook
\* is set to _on_outcome and the message is handed to send_message.
send(t) ==
    /\ spc[t] = "idle"
    /\ spc' = [spc EXCEPT ![t] = "in_send_message"]
    /\ reported' = [reported EXCEPT ![t] = None]
    /\ sresult' = [sresult EXCEPT ![t] = [status |-> "none", error |-> None]]
    /\ overlapped' = [u \in Tasks |->
            IF u = t THEN \E v \in Tasks \ {t} : spc[v] = "in_send_message"
            ELSE overlapped[u] \/ spc[u] = "in_send_message"]
    /\ UNCHANGED <<_outcome, _condition, transfers, pumpVars, taskVars, clientVars, receiverVars, offsetVars>>

\* The transport reports the outcome of the message being submitted: the
\* completion hook runs, once per message, while send_message blocks.
on_send_complete(t, outcome, condition) ==
    /\ spc[t] = "in_send_message"
    /\ reported[t] = None
    /\ _outcome' = _on_outcome(outcome, condition).outcome
    /\ _condition' = _on_outcome(outcome, condition).condition
    /\ reported' = [reported EXCEPT ![t] = Some([outcome |-> outcome, condition |-> condition])]
    /\ UNCHANGED <<spc, sresult, overlapped, transfers, pumpVars, taskVars, clientVars, receiverVars, offsetVars>>

\* send that raises only when the slot holds Error.
send_returned_only_on_error(t) ==
    /\ spc[t] = "in_send_message"
    /\ spc' = [spc EXCEPT ![t] = "idle"]
    /\ sresult' = [sresult EXCEPT ![t] =
                      IF _outcome = "Error"
                      THEN [status |-> "raised", error |-> _error(_outcome, _condition)]
                      ELSE [status |-> "returned", error |-> None]]
    /\ UNCHANGED <<_outcome, _condition, reported, overlapped, transfers, pumpVars, taskVars, clientVars, receiverVars, offsetVars>>

\* send_message returned: send reads the slot back and raises unless it holds Ok.
send_returned(t) ==
    /\ spc[t] = "in_send_message"
    /\ spc' = [spc EXCEPT ![t] = "idle"]
    /\ sresult' = [sresult EXCEPT ![t] =
                      IF _outcome # "Ok"
                      THEN [status |-> "raised", error |-> _error(_outcome, _condition)]
                      ELSE [status |-> "returned", error |-> None]]
    /\ UNCHANGED <<_outcome, _condition, reported, overlapped, transfers, pumpVars, taskVars, clientVars, receiverVars, offsetVars>>

\* transfer(event_data, callback): with a callback the message's completion
\* hook becomes lambda o, c: callback(o, Sender._error(o, c)); the message is
\* queued and transfer returns.
transfer(callback) ==
    /\ Len(transfers) < MaxTransfer
    /\ transfers' = Append(transfers, [state |-> "queued", callback |-> callback,
                                       reported |-> None, calls |-> << >>])
    /\ UNCHANGED <<_outcome, _condition, spc, reported, sresult, overlapped, pumpVars, taskVars, clientVars, receiverVars, offsetVars>>

\* The transport reports the outcome of a queued message: its completion hook,
\* if one was set, calls the callback.
transfer_complete(m, outcome, condition) ==
    /\ m \in 1..Len(transfers)
    /\ transfers[m].state = "queued"
    /\ transfers' = [transfers EXCEPT ![m] =
            [state |-> "done", callback |-> @.callback,
             reported |-> Some([outcome |-> outcome, condition |-> condition]),
             calls |-> IF @.callback
                       THEN Append(@.calls, <<outcome, _error(outcome, condition)>>)
                       ELSE @.calls]]
    /\ UNCHANGED <<_outcome, _condition, spc, reported, sresult, overlapped, pumpVars, taskVars, clientVars, receiverVars, offsetVars>>

\* ----------------------------------------------------------- EventHubClient
HandlerKinds == {"receiver", "epoch_receiver", "sender"}

ClientInit ==
    /\ connection = None
    /\ clients = << >>
    /\ stopped = FALSE
    /\ constructed = 0
    /\ destroyed = 0
    /\ cpc = "idle"
    /\ cop = "none"
    /\ heldAtCall = None

\* A call on the client begins.
ClientCall(o) ==
    /\ cpc = "idle"
    /\ cop' = o
    /\ heldAtCall' = connection

\* _create_connection that constructs a Connection on every call.
_create_connection_always ==
    /\ constructed < MaxConnections
    /\ constructed' = constructed + 1
    /\ connection' = Some(constructed + 1)

\* _create_connection(): a Connection is constructed only when none is held.
_create_connection ==
    IF connection = None
    THEN /\ constructed < MaxConnections
         /\ constructed' = constructed + 1
         /\ connection' = Some(constructed + 1)
    ELSE UNCHANGED <<connection, constructed>>

\* _close_connection(): the held connection is destroyed and forgotten.
_close_connection ==
    IF connection # None
    THEN /\ destroyed' = destroyed + 1
         /\ connection' = None
    ELSE UNCHANGED <<connection, destroyed>>

\* _close_clients(): every registered handler is closed.
_close_clients ==
    clients' = [i \in 1..Len(clients) |-> [clients[i] EXCEPT !.open = FALSE]]

\* A direct call of _create_connection.
create_connection ==
    /\ ClientCall("_create_connection")
    /\ _create_connection
    /\ UNCHANGED <<destroyed, clients, stopped, cpc,
                   pumpVars, taskVars, senderVars, receiverVars, offsetVars>>

\* A direct call of _close_connection.
close_connection ==
    /\ ClientCall("_close_connection")
    /\ _close_connection
    /\ UNCHANGED <<constructed, clients, stopped, cpc,
                   pumpVars, taskVars, senderVars, receiverVars, offsetVars>>

\* add_receiver / add_epoch_receiver / add_sender: the new handler is
\* appended to the client's list; it is not opened.
add_handler(kind) ==
    /\ ClientCall("add")
    /\ Len(clients) < MaxClients
    /\ clients' = Append(clients, [kind |-> kind, open |-> FALSE, connection |-> None])
    /\ UNCHANGED <<connection, constructed, destroyed, stopped, cpc,
                   pumpVars, taskVars, senderVars, receiverVars, offsetVars>>

\* run(), up to the loop over the handlers: the connection is created.
run ==
    /\ ClientCall("run")
    /\ _create_connection
    /\ cpc' = "in_run"
    /\ UNCHANGED <<destroyed, clients, stopped,
                   pumpVars, taskVars, senderVars, receiverVars, offsetVars>>

\* run(), the loop: every registered handler is opened on self.connection.
run_open_clients ==
    /\ cpc = "in_run"
    /\ clients' = [i \in 1..Len(clients) |->
                      [clients[i] EXCEPT !.open = TRUE, !.connection = connection]]
    /\ cpc' = "idle"
    /\ UNCHANGED <<connection, constructed, destroyed, stopped, cop, heldAtCall,
                   pumpVars, taskVars, senderVars, receiverVars, offsetVars>>

\* stop() that leaves the handlers as they are.
stop_keeps_clients ==
    /\ ClientCall("stop")
    /\ stopped' = TRUE
    /\ cpc' = "in_stop"
    /\ UNCHANGED <<clients, connection, constructed, destroyed,
                   pumpVars, taskVars, senderVars, receiverVars, offsetVars>>

\* stop(), up to _close_connection: stopped is set and the handlers are closed.
stop ==
    /\ ClientCall("stop")
    /\ stopped' = TRUE
    /\ _close_clients
    /\ cpc' = "in_stop"
    /\ UNCHANGED <<connection, constructed, destroyed,
                   pumpVars, taskVars, senderVars, receiverVars, offsetVars>>

\* stop(), the end: the connection is closed.
stop_close_connection ==
    /\ cpc = "in_stop"
    /\ _close_connection
    /\ cpc' = "idle"
    /\ UNCHANGED <<constructed, clients, stopped, cop, heldAtCall,
                   pumpVars, taskVars, senderVars, receiverVars, offsetVars>>

\* ------------------------------------------------------------------- Offset
\* The values an Offset is built from: a datetime (milliseconds since the
\* epoch), an int or a str.
OffsetNumbers == (0..MaxOffsetValue) \cup {12345}
OffsetValues ==
    {[kind |-> "datetime", int |-> n, str |-> ""] : n \in OffsetNumbers}
    \cup {[kind |-> "int", int |-> n, str |-> ""] : n \in OffsetNumbers}
    \cup {[kind |-> "str", int |-> 0, str |-> ToString(n)] : n \in OffsetNumbers}
    \cup {[kind |-> "str", int |-> 0, str |-> x] : x \in {"-1", "@latest"}}

StrValue(x) == [kind |-> "str", int |-> 0, str |-> x]

\* The bytes "<field> <operator> '<text>'" as their three parts.
Filter(field, operator, text) == <<field, operator, text>>

\* Offset.selector() that always compares exclusively.
OffsetSelector_exclusive(value, inclusive) ==
    IF value.kind = "datetime" THEN <<"NameError">>
    ELSE IF value.kind = "int"
    THEN Filter("amqp.annotation.x-opt-enqueued-time", ">", ToString(value.int))
    ELSE Filter("amqp.annotation.x-opt-offset", ">", value.str)

\* Offset.selector(): the datetime branch calls the undefined name timestamp;
\* an int is an enqueued time; anything else is an offset, compared with >=
\* when inclusive.
OffsetSelector(value, inclusive) ==
    IF value.kind = "datetime" THEN <<"NameError">>
    ELSE IF value.kind = "int"
    THEN Filter("amqp.annotation.x-opt-enqueued-time", ">", ToString(value.int))
    ELSE Filter("amqp.annotation.x-opt-offset", IF inclusive THEN ">=" ELSE ">", value.str)

\* No Offset object has been built yet.
OffsetInit ==
    /\ off_value = None
    /\ off_inclusive = FALSE
    /\ off_result = None

\* Offset(value, inclusive)
offset_init(value, inclusive) ==
    /\ off_value' = Some(value)
    /\ off_inclusive' = inclusive
    /\ off_result' = None
    /\ UNCHANGED <<pumpVars, taskVars, senderVars, clientVars, receiverVars>>

\* Offset.selector()
offset_selector ==
    /\ off_value # None
    /\ off_result = None
    /\ off_result' = Some(OffsetSelector(off_value[1], off_inclusive))
    /\ UNCHANGED <<off_value, off_inclusive,
                   pumpVars, taskVars, senderVars, clientVars, receiverVars>>

\* ----------------------------------------------------------------- Receiver
\* The k-th message of the partition as the transport hands it over.
Message(k) == [x_opt_offset |-> ToString(k), x_opt_sequence_number |-> k]

\* EventData.create(message): offset and sequence_number read the annotations.
EventDataCreate(message) ==
    [offset |-> message.x_opt_offset, sequence_number |-> message.x_opt_sequence_number]

\* Python truth of an optional number: None and 0 are false.
Truthy(x) == x # None /\ x[1] # 0

\* The seconds-to-milliseconds factor of receive().
MsPerSecond == 1000

ReceiverInit ==
    /\ offset = None
    /\ delivered = 0
    /\ _callback = FALSE
    /\ rpc = "idle"
    /\ max_batch_size = None
    /\ timeout = None
    /\ user_callback = FALSE
    /\ timeout_ms = 0
    /\ receive_timeout = None
    /\ message_iter = << >>
    /\ idx = 1
    /\ now = 0
    /\ streamPos = 0
    /\ yielded = << >>
    /\ log = << >>
    /\ fetches = << >>
    /\ selected = None

\* on_message that never calls the user's callback.
on_message_without_callback(r, event) ==
    [offset |-> Some(EventDataCreate(event).offset),
     delivered |-> r.delivered + 1,
     result |-> EventDataCreate(event),
     log |-> Append(r.log, [event |-> EventDataCreate(event),
                            callbackArg |-> None,
                            offsetSet |-> Some(EventDataCreate(event).offset)])]

\* on_message(event) on the receiver fields r: delivered is counted, the
\* message is wrapped, the callback (if any) gets the EventData, offset is set
\* to the event's offset, the EventData is returned.
on_message(r, event) ==
    [offset |-> Some(EventDataCreate(event).offset),
     delivered |-> r.delivered + 1,
     result |-> EventDataCreate(event),
     log |-> Append(r.log, [event |-> EventDataCreate(event),
                            callbackArg |-> IF _callback THEN Some(EventDataCreate(event))
                                            ELSE None,
                            offsetSet |-> Some(EventDataCreate(event).offset)])]

\* The receiver fields after on_message ran for messages from+1 .. from+k.
RECURSIVE OnMessages(_, _, _)
OnMessages(r, from, k) ==
    IF k = 0 THEN r
    ELSE on_message(OnMessages(r, from, k - 1), Message(from + k))

\* receive(max_batch_size, callback, timeout), from the first next() up to
\* the first batch fetch.
receive(mbs, cb, to) ==
    /\ rpc \in {"idle", "done"}
    /\ max_batch_size' = mbs
    /\ user_callback' = cb
    /\ timeout' = to
    /\ timeout_ms' = IF Truthy(to) THEN MsPerSecond * to[1] ELSE 0
    /\ _callback' = cb
    /\ receive_timeout' = IF ~Truthy(mbs) /\ Truthy(to) THEN Some(now + to[1]) ELSE None
    /\ fetches' = << [max_batch_size |-> IF Truthy(mbs) THEN mbs ELSE None,
                      timeout |-> timeout_ms'] >>
    /\ rpc' = IF Truthy(mbs) THEN "fetching_batch" ELSE "fetching"
    /\ yielded' = << >>
    /\ log' = << >>
    /\ message_iter' = << >>
    /\ idx' = 1
    /\ UNCHANGED <<offset, delivered, now, streamPos, selected,
                   pumpVars, taskVars, senderVars, clientVars, offsetVars>>

\* receive_message_batch returns k events after dt seconds; on_message ran for
\* each of them, in order, while it was blocking.  With a max_batch_size the
\* batch is iterated and the generator ends; without, the while condition
\* decides whether the batch is iterated.
receive_message_batch(k, dt) ==
    /\ rpc \in {"fetching_batch", "fetching"}
    /\ streamPos + k <= MaxEvent
    /\ fetches[Len(fetches)].max_batch_size # None => k <= fetches[Len(fetches)].max_batch_size[1]
    /\ now + dt <= MaxTime
    /\ fetches[Len(fetches)].timeout > 0 => MsPerSecond * dt <= fetches[Len(fetches)].timeout
    /\ LET r == OnMessages([offset |-> offset, delivered |-> delivered, log |-> log,
                            result |-> None], streamPos, k)
       IN /\ offset' = r.offset
          /\ delivered' = r.delivered
          /\ log' = r.log
    /\ message_iter' = [i \in 1..k |-> log'[Len(log) + i].event]
    /\ streamPos' = streamPos + k
    /\ now' = now + dt
    /\ idx' = 1
    /\ rpc' = IF rpc = "fetching_batch"
              THEN (IF k = 0 THEN "done" ELSE "yielding_batch")
              ELSE IF message_iter' # << >>
                      /\ (receive_timeout = None \/ now' < receive_timeout[1])
                   THEN "yielding"
                   ELSE "done"
    /\ UNCHANGED <<_callback, max_batch_size, timeout, user_callback, timeout_ms, receive_timeout,
                   yielded, fetches, selected,
                   pumpVars, taskVars, senderVars, clientVars, offsetVars>>

\* yield event_data: the next event of the batch goes to the caller.
yield_event ==
    /\ rpc \in {"yielding_batch", "yielding"}
    /\ idx <= Len(message_iter)
    /\ yielded' = Append(yielded, message_iter[idx])
    /\ idx' = idx + 1
    /\ UNCHANGED <<offset, delivered, _callback, rpc, max_batch_size, timeout, user_callback,
                   timeout_ms, receive_timeout, message_iter, now, streamPos, log, fetches,
                   selected, pumpVars, taskVars, senderVars, clientVars, offsetVars>>

\* The caller asks for more after the last event of the batch: with a
\* max_batch_size the generator ends; without, the remaining budget is
\* computed from the deadline and the next batch is fetched.
next_batch ==
    /\ rpc \in {"yielding_batch", "yielding"}
    /\ idx > Len(message_iter)
    /\ IF rpc = "yielding_batch"
       THEN /\ rpc' = "done"
            /\ UNCHANGED <<timeout_ms, fetches>>
       ELSE /\ timeout_ms' = IF receive_timeout # None
                             THEN MsPerSecond * (receive_timeout[1] - now)
                             ELSE timeout_ms
            /\ fetches' = Append(fetches, [max_batch_size |-> None, timeout |-> timeout_ms'])
            /\ rpc' = "fetching"
    /\ UNCHANGED <<offset, delivered, _callback, max_batch_size, timeout, user_callback,
                   receive_timeout, message_iter, idx, now, streamPos, yielded, log,
                   selected, pumpVars, taskVars, senderVars, clientVars, offsetVars>>

\* Time passes while the generator is suspended at a yield or not running.
tick ==
    /\ rpc \in {"idle", "done", "yielding_batch", "yielding"}
    /\ now < MaxTime
    /\ now' = now + 1
    /\ UNCHANGED <<offset, delivered, _callback, rpc, max_batch_size, timeout, user_callback,
                   timeout_ms, receive_timeout, message_iter, idx, streamPos, yielded, log,
                   fetches, selected, pumpVars, taskVars, senderVars, clientVars, offsetVars>>

\* The fallback selectors a caller passes to Receiver.selector.
Defaults == {OffsetSelector(StrValue("-1"), FALSE), OffsetSelector(StrValue("@latest"), FALSE)}

\* Receiver.selector that resumes from the tracked offset inclusively.
ReceiverSelector_inclusive(default) ==
    IF offset # None THEN OffsetSelector(StrValue(offset[1]), TRUE) ELSE default

\* Receiver.selector(default)
ReceiverSelector(default) ==
    IF offset # None THEN OffsetSelector(StrValue(offset[1]), FALSE) ELSE default

\* A call of Receiver.selector(default); its result is kept with the default
\* and the number of events the transport had handed over.
selector(default) ==
    /\ rpc \in {"idle", "done", "yielding_batch", "yielding"}
    /\ selected' = Some([result |-> ReceiverSelector(default), default |-> default,
                         handed |-> streamPos])
    /\ UNCHANGED <<offset, delivered, _callback, rpc, max_batch_size, timeout, user_callback,
                   timeout_ms, receive_timeout, message_iter, idx, now, streamPos, yielded,
                   log, fetches, pumpVars, taskVars, senderVars, clientVars, offsetVars>>

Init == PumpInit /\ SenderInit /\ ClientInit /\ OffsetInit /\ ReceiverInit

\* One pump driven by one sequential caller.
PumpNext ==
    \/ open_async(MainTask)
    \/ \E r \in Reasons : close_async(MainTask, r)
    \/ \E b \in Batches : process_events_async(MainTask, b)
    \/ \E l \in NewLeases : set_lease(l)
    \/ PumpResume(MainTask)

PumpSpec == Init /\ [][PumpNext]_vars

\* One pump called by two tasks that interleave at the awaits.
PumpConcNext ==
    \E t \in Tasks :
        \/ open_async(t)
        \/ \E r \in Reasons : close_async(t, r)
        \/ \E b \in ConcBatches : process_events_async(t, b)
        \/ PumpResume(t)

PumpConcSpec == Init /\ [][PumpConcNext]_vars

\* One Sender whose send calls are serialized.
SenderNext ==
    \/ send(MainTask)
    \/ \E o \in MessageSendResult, c \in Conditions : on_send_complete(MainTask, o, c)
    \/ send_returned(MainTask)
    \/ \E cb \in BOOLEAN : transfer(cb)
    \/ \E m \in 1..MaxTransfer, o \in MessageSendResult, c \in Conditions :
            transfer_complete(m, o, c)

SenderSpec == Init /\ [][SenderNext]_vars

\* One Sender whose send is called by two threads at once.
SenderConcNext ==
    \E t \in Tasks :
        \/ send(t)
        \/ \E o \in MessageSendResult, c \in Conditions : on_send_complete(t, o, c)
        \/ send_returned(t)

SenderConcSpec == Init /\ [][SenderConcNext]_vars

\* One EventHubClient and its single caller.
ClientNext ==
    \/ create_connection
    \/ close_connection
    \/ \E k \in HandlerKinds : add_handler(k)
    \/ run
    \/ run_open_clients
    \/ stop
    \/ stop_close_connection

ClientSpec == Init /\ [][ClientNext]_vars

\* One Offset value object.
OffsetNext ==
    \/ \E v \in OffsetValues, i \in BOOLEAN : offset_init(v, i)
    \/ offset_selector

OffsetSpec == Init /\ [][OffsetNext]_vars

\* One Receiver, its transport and the single caller of receive().
ReceiverNext ==
    \/ \E mbs \in {None} \cup {Some(n) : n \in 0..MaxBatch},
          cb \in BOOLEAN,
          to \in {None} \cup {Some(n) : n \in 0..MaxTimeout} : receive(mbs, cb, to)
    \/ \E k \in 0..MaxBatch, dt \in 0..MaxTime : receive_message_batch(k, dt)
    \/ yield_event
    \/ next_batch
    \/ tick
    \/ \E d \in Defaults : selector(d)

ReceiverSpec == Init /\ [][ReceiverNext]_vars

\* ------------------------------------------------------------------- claims
\* Task t has finished a call of operation o.
Ended(t, o) == pc[t] = "idle" /\ op[t] = o /\ result[t] # "none"

\* The context holds the offset and the sequence number of the last element
\* of the batch of task t.
CtxFromLast(t) ==
    /\ events[t][Len(events[t])] # None
    /\ partition_context # None
    /\ partition_context[1].offset = Some(events[t][Len(events[t])][1].offset)
    /\ partition_context[1].sequence_number = Some(events[t][Len(events[t])][1].sequence_number)

\* C1: when a close_async call has ended, in whatever way, pump_status is
\* Closed.
C1_CloseEndsClosed ==
    \A t \in Tasks : Ended(t, "close") => pump_status = "Closed"

\* C2 as stated: for every non-empty batch given to an Opened pump, the context
\* holds the offset and sequence number of the batch's last element while the
\* processor's process_events hook runs and when the call has ended.
C2_EveryBatchSetsContext ==
    \A t \in Tasks :
        (op[t] = "process" /\ startStatus[t] = "Opened" /\ events[t] # << >>) =>
            /\ pc[t] = "in_process" => CtxFromLast(t)
            /\ Ended(t, "process") => CtxFromLast(t)

\* C2 amended: for every non-empty batch whose last element is not None, given
\* to an Opened pump, the context holds the offset and sequence number of that
\* last element while the processor's process_events hook runs (it was set
\* before the hook was invoked) and when the call has ended; a batch whose last
\* element is None never reaches the hook.
C2_BatchSetsContext ==
    \A t \in Tasks :
        (op[t] = "process" /\ startStatus[t] = "Opened" /\ events[t] # << >>) =>
            IF events[t][Len(events[t])] # None
            THEN /\ pc[t] = "in_process" => CtxFromLast(t)
                 /\ Ended(t, "process") => CtxFromLast(t)
            ELSE pc[t] # "in_process"

\* A two-element batch with distinct events was processed on an Opened pump,
\* the hook returned, and the context holds the last element's values.
C2_Witness ==
    \E t \in Tasks :
        /\ Ended(t, "process") /\ startStatus[t] = "Opened" /\ result[t] = "ok"
        /\ Len(events[t]) = 2
        /\ events[t][1] # None /\ events[t][2] # None
        /\ events[t][1][1].offset # events[t][2][1].offset
        /\ events[t][1][1].sequence_number # events[t][2][1].sequence_number
        /\ CtxFromLast(t)

\* C3: an open_async call whose processor open hook raised ends in status
\* OpenFailed with no processor, and from then on (until the pump is opened
\* again) neither the process_events hook nor the processor's close hook runs.
C3_OpenFailureIsTerminal ==
    /\ \A t \in Tasks :
          (Ended(t, "open") /\ hookRaised[t] = "OpenError") =>
              (pump_status = "OpenFailed" /\ processor = NoProcessor)
    /\ openFailed => \A t \in Tasks : pc[t] \notin {"in_process", "in_processor_close"}

\* C4: a finished close_async("LeaseLost") on an Opened pump has called
\* release_lease_async exactly once.
C4_ExactlyOneRelease ==
    \A t \in Tasks :
        (Ended(t, "close") /\ reason[t] = "LeaseLost" /\ startStatus[t] = "Opened") =>
            releases[t] = 1

\* The transitions of the documented life cycle.
LifecycleTransitions ==
    { <<"Uninitialized", "Opening">>, <<"Opening", "Opened">>, <<"Opening", "OpenFailed">>,
      <<"Opened", "Closing">>, <<"Closing", "Closed">> }

\* C5 as stated: pump_status changes only along the documented transitions, so
\* OpenFailed and Closed are never left.
C5_OnlyLifecycleTransitions ==
    [][pump_status' # pump_status =>
          <<pump_status, pump_status'>> \in LifecycleTransitions]_vars

\* C5 amended: pump_status changes only along X->Opening (any X, on entry to
\* open_async), Opening->Opened, Opening->OpenFailed, X->Closing (any X, on
\* entry to close_async) and Closing->Closed; OpenFailed and Closed are left
\* by a later open_async or close_async, and by nothing else.
C5_StatusTransitions ==
    [][pump_status' # pump_status =>
          \/ <<pump_status, pump_status'>> \in LifecycleTransitions
          \/ /\ pump_status' = "Opening"
             /\ \E t \in Tasks : pc[t] = "idle" /\ pc'[t] = "in_open"
          \/ /\ pump_status' = "Closing"
             /\ \E t \in Tasks : pc[t] = "idle" /\ pc'[t] = "in_on_closing"]_vars

\* close_async was called on a pump in status OpenFailed and has ended in Closed.
C5_Witness ==
    \E t \in Tasks :
        Ended(t, "close") /\ startStatus[t] = "OpenFailed" /\ pump_status = "Closed"

\* C6: a finished process_events_async call on a pump that open_async has run
\* on has returned normally and left pump_status as it found it.
C6_ProcessNeverRaises ==
    \A t \in Tasks :
        (Ended(t, "process") /\ startStatus[t] # "Uninitialized") =>
            (result[t] = "ok" /\ pump_status = startStatus[t])

\* C7: when the closing hook or the processor's close hook raised E in a
\* finished close_async call, E was given to the error hook and E is what the
\* caller received.
C7_CloseErrorReraised ==
    \A t \in Tasks :
        (Ended(t, "close") /\ hookRaised[t] # NoError) =>
            (forwarded[t] = hookRaised[t] /\ result[t] = hookRaised[t])

\* C8: no task is inside the closing hook or the processor's close hook while
\* another task is inside the processor's process_events hook.
C8_ProcessAndCloseExclusive ==
    \A t, u \in Tasks :
        t # u => ~(pc[t] = "in_process" /\ pc[u] \in {"in_on_closing", "in_processor_close"})

\* C9: a send call that returned normally had outcome Ok reported for its own
\* message.
C9_ReturnsOnlyOnOwnOk ==
    \A t \in Tasks :
        sresult[t].status = "returned" =>
            (reported[t] # None /\ reported[t][1].outcome = "Ok")

\* C10: a finished send call whose message had its outcome reported before the
\* submit returned has returned normally if the outcome is Ok, and otherwise
\* raised an EventHubError carrying that outcome and its condition.
C10_SendFollowsReportedOutcome ==
    \A t \in Tasks :
        (sresult[t].status # "none" /\ reported[t] # None) =>
            IF reported[t][1].outcome = "Ok"
            THEN sresult[t] = [status |-> "returned", error |-> None]
            ELSE sresult[t] = [status |-> "raised",
                               error |-> <<"EventHubError", reported[t][1].outcome,
                                           reported[t][1].condition>>]

\* A send raised after the transport reported a failure with a condition for
\* its message.
C10_Witness ==
    \E t \in Tasks :
        /\ sresult[t].status = "raised"
        /\ reported[t] # None
        /\ reported[t][1].outcome = "Error"
        /\ reported[t][1].condition # None

\* The result a send call must have for the outcome reported for its own message.
OwnResult(t) ==
    IF reported[t][1].outcome = "Ok"
    THEN [status |-> "returned", error |-> None]
    ELSE [status |-> "raised",
          error |-> <<"EventHubError", reported[t][1].outcome, reported[t][1].condition>>]

\* C11: with two threads in send on one Sender, a finished send whose submit
\* overlapped no other send, and whose message had its outcome reported, has
\* the result of its own outcome; only an overlapped send can end with the
\* result of the other message's outcome (the witness is such a send).
C11_SerializedSendReadsOwnOutcome ==
    \A t \in Tasks :
        (sresult[t].status # "none" /\ reported[t] # None /\ ~overlapped[t]) =>
            sresult[t] = OwnResult(t)

\* Two sends overlapped; one had Error reported for its message and returned
\* normally, because the slot held the Ok reported for the other message.
C11_Witness ==
    \E t \in Tasks : \E u \in Tasks \ {t} :
        /\ overlapped[t]
        /\ reported[t] # None /\ reported[t][1].outcome = "Error"
        /\ sresult[t].status = "returned"
        /\ reported[u] # None /\ reported[u][1].outcome = "Ok"

\* C12: a message transferred with a callback has had no callback call while
\* it is queued and exactly one when its outcome has been reported, with that
\* outcome and with None for Ok, otherwise an EventHubError of the outcome and
\* condition; a message transferred without callback never has a call; and no
\* transfer touches the result of a send.
C12_TransferCallback ==
    \A m \in 1..Len(transfers) :
        /\ transfers[m].state = "queued" => transfers[m].calls = << >>
        /\ (transfers[m].state = "done" /\ ~transfers[m].callback) => transfers[m].calls = << >>
        /\ (transfers[m].state = "done" /\ transfers[m].callback) =>
              /\ Len(transfers[m].calls) = 1
              /\ transfers[m].calls[1][1] = transfers[m].reported[1].outcome
              /\ transfers[m].calls[1][2] =
                    IF transfers[m].reported[1].outcome = "Ok" THEN None
                    ELSE <<"EventHubError", transfers[m].reported[1].outcome,
                           transfers[m].reported[1].condition>>

\* One transferred message got Ok and its callback got (Ok, None); another got
\* a failure with a condition and its callback got the error.
C12_Witness ==
    \E m, n \in 1..Len(transfers) :
        /\ transfers[m].state = "done" /\ transfers[m].callback
        /\ transfers[m].calls = << <<"Ok", None>> >>
        /\ transfers[n].state = "done" /\ transfers[n].callback
        /\ transfers[n].reported[1].outcome = "Timeout"
        /\ transfers[n].reported[1].condition # None
        /\ Len(transfers[n].calls) = 1

\* C13: the Connection objects constructed and not yet destroyed are exactly
\* the one the client holds: none while connection is None, otherwise one, the
\* one constructed last; so no call constructs while one is held or destroys
\* while none is held.
C13_OneLiveConnection ==
    /\ constructed - destroyed = (IF connection = None THEN 0 ELSE 1)
    /\ connection # None => connection[1] = constructed
    /\ (cpc = "idle" /\ cop = "_create_connection" /\ heldAtCall # None) =>
           connection = heldAtCall
    /\ (cpc = "idle" /\ cop = "_close_connection") => connection = None

\* A second connection was constructed by _create_connection after the first
\* was destroyed.
C13_Witness ==
    /\ cpc = "idle" /\ cop = "_create_connection"
    /\ constructed = 2 /\ destroyed = 1
    /\ connection = Some(2)

\* C14: between the two halves of run the connection exists; when run has
\* ended every registered handler is open on the client's connection; between
\* the two halves of stop every handler is closed and the connection is still
\* the one held when stop was called; when stop has ended the connection
\* reference is cleared and every handler is closed.
C14_RunOpensStopCloses ==
    /\ cpc = "in_run" => connection # None
    /\ (cpc = "idle" /\ cop = "run") =>
          /\ connection # None
          /\ \A i \in 1..Len(clients) :
                clients[i].open /\ clients[i].connection = connection
    /\ cpc = "in_stop" =>
          /\ connection = heldAtCall
          /\ \A i \in 1..Len(clients) : ~clients[i].open
    /\ (cpc = "idle" /\ cop = "stop") =>
          /\ connection = None
          /\ \A i \in 1..Len(clients) : ~clients[i].open

\* stop has ended on a client that held a connection and has two handlers,
\* both opened on that connection by an earlier run.
C14_Witness ==
    /\ cpc = "idle" /\ cop = "stop"
    /\ heldAtCall # None
    /\ Len(clients) = 2
    /\ \A i \in 1..Len(clients) : clients[i].connection = heldAtCall
    /\ destroyed >= 1

\* C15: a receive() call given no max_batch_size and no timeout never ends on
\* its own, whatever batches the transport returns.
C15_NeverSelfTerminates ==
    (max_batch_size = None /\ timeout = None) => rpc # "done"

\* C16: a receive() call given a timeout and no max_batch_size ends only once
\* its deadline has passed; an empty batch before the deadline does not end it.
C16_FetchesUntilDeadline ==
    (max_batch_size = None /\ Truthy(timeout) /\ rpc = "done") => now >= receive_timeout[1]

\* C17: the events yielded by a receive() call are, in order, the first events
\* on_message handled in that call; for each of them on_message set
\* Receiver.offset to the event's offset and, when a callback was passed, called
\* it with that EventData; the yielded events are in the transport's order.
C17_YieldedAfterOnMessage ==
    /\ Len(yielded) <= Len(log)
    /\ \A i \in 1..Len(yielded) :
        /\ yielded[i] = log[i].event
        /\ log[i].offsetSet = Some(yielded[i].offset)
        /\ log[i].callbackArg = (IF user_callback THEN Some(yielded[i]) ELSE None)
        /\ \A j \in 1..Len(yielded) :
               i < j => yielded[i].sequence_number < yielded[j].sequence_number

\* A call with a callback has yielded two events of one batch.
C17_Witness ==
    /\ user_callback
    /\ rpc = "yielding"
    /\ Len(yielded) = 2
    /\ Len(message_iter) = 2
    /\ offset = Some(yielded[2].offset)

\* The number an offset text stands for.
OffsetNumber(text) == CHOOSE n \in 0..MaxEvent : ToString(n) = text

\* Whether the service, given the filter, sends the k-th event of the partition.
Selects(filter, k) ==
    /\ filter[1] = "amqp.annotation.x-opt-offset"
    /\ \E n \in 0..MaxEvent :
        /\ ToString(n) = filter[3]
        /\ IF filter[2] = ">=" THEN k >= n ELSE k > n

C19_IntegerOffsetFilter ==
    (off_result # None /\ off_value[1].kind = "int") =>
        off_result[1] = <<"amqp.annotation.x-opt-offset",
                          IF off_inclusive THEN ">=" ELSE ">",
                          ToString(off_value[1].int)>>

\* C19: for a string value the filter is on x-opt-offset and the operator is >=
\* exactly when inclusive is set; for an integer value the filter is on
\* x-opt-enqueued-time with operator >, whatever inclusive is.
C19_StringOffsetFilter ==
    off_result # None =>
        /\ off_value[1].kind = "str" =>
               off_result[1] = <<"amqp.annotation.x-opt-offset",
                                 IF off_inclusive THEN ">=" ELSE ">",
                                 off_value[1].str>>
        /\ off_value[1].kind = "int" =>
               off_result[1] = <<"amqp.annotation.x-opt-enqueued-time", ">",
                                 ToString(off_value[1].int)>>

\* Offset("12345", inclusive=True).selector() has been computed.
C19_Witness ==
    /\ off_value = Some([kind |-> "str", int |-> 0, str |-> "12345"])
    /\ off_inclusive
    /\ off_result = Some(<<"amqp.annotation.x-opt-offset", ">=", "12345">>)

\* C20: a receive() call given a max_batch_size issues one batch fetch, with
\* the given timeout, and once it has ended it has yielded exactly the events
\* of that fetch, in order.
C20_OneFetchPerBatchCall ==
    (max_batch_size # None /\ rpc # "idle") =>
        /\ Len(fetches) = 1
        /\ fetches[1].timeout = (IF Truthy(timeout) THEN MsPerSecond * timeout[1] ELSE 0)
        /\ rpc = "done" => yielded = [i \in 1..Len(log) |-> log[i].event]

\* C21: a process_events_async call on an Opened pump with a non-empty batch
\* passes that batch, whole, to the processor's process_events hook (once,
\* before the call ends); it is never dropped.
C21_EveryBatchForwarded ==
    \A t \in Tasks :
        (Ended(t, "process") /\ startStatus[t] = "Opened" /\ events[t] # << >>) =>
            hookBatch[t] = Some(events[t])

\* C24: a process_events_async call that begins when the pump is Closing or
\* Closed does not invoke the processor's process_events hook and leaves the
\* offset of the partition context as it was.
C24_NoProcessingAfterClose ==
    \A t \in Tasks :
        (op[t] = "process" /\ startStatus[t] \in {"Closing", "Closed"}) =>
            /\ hookBatch[t] = None
            /\ ~offsetChanged[t]

\* C25: the lease close_async('LeaseLost') hands to release_lease_async is the
\* lease given to the pump last, by set_lease or else by the constructor.
C25_ReleasesLatestLease ==
    \A t \in Tasks :
        pc[t] = "in_release" => releasedLease[t] = Some(lastLease)

\* C22: when a receive() call has ended, every event on_message handled during
\* the call has been yielded, in order; no fetched batch was discarded.
C22_NoFetchedEventLost ==
    rpc = "done" =>
        /\ Len(yielded) = Len(log)
        /\ \A i \in 1..Len(log) : yielded[i] = log[i].event

\* C23: every batch fetch of a receive() call given a timeout and no
\* max_batch_size is issued before the deadline, with a timeout above zero.
C23_PositiveFetchBudget ==
    (max_batch_size = None /\ Truthy(timeout)) =>
        \A i \in 1..Len(fetches) : fetches[i].timeout > 0
====
